---- MODULE Spec2Model ----
(***************************************************************************)
(* Marketing funnel dashboard (src/app.py).  One script run loads and      *)
(* normalises the lead table (load_data) and then renders the page the     *)
(* user picked, from the widget values the user set: pc goes from "start"   *)
(* to "ready" (or "failed") with the load and to "done" with the page.     *)
(*                                                                         *)
(* Conventions of the model                                                *)
(*  - the Japanese column names and labels of the source are written in    *)
(*    ASCII: progress "not_met" / "met" / "closed" stand for the three     *)
(*    labels of progress_order, "lt20M" .. "ge500M" for asset_order,       *)
(*    "20s" .. "75plus" for age_order, "none" .. "ge3y" for exp_order;     *)
(*    the keys of the funnel dictionary are count, meetings, closings,     *)
(*    meeting_rate, close_rate, close_from_meeting, revenue_total,         *)
(*    revenue_avg;                                                         *)
(*  - a missing cell (pandas NaN / NaT) of a label column is the value     *)
(*    NaN; a revenue cell is <<>> when missing and <<v>> when present;     *)
(*  - a float is an exact fraction [num, den] in lowest terms, and the     *)
(*    float NaN is the fraction with den = 0 (float rounding is not        *)
(*    modelled);                                                           *)
(*  - a data frame is the sequence of its rows; a grouped table is the     *)
(*    function from its index (the group keys) to its rows.                *)
(***************************************************************************)
EXTENDS Integers, Sequences, FiniteSets, TLC

VARIABLES pc, raw, df, inputs, out

vars == <<pc, raw, df, inputs, out>>

\* ---------------------------------------------------------------- bounds
MaxRows == 2
MaxLeads == 3
MaxRevenue == 1
MaxN == 60
MaxRankRows == 5

\* ----------------------------------------------------------- basic values
NaN == "<NaN>"

NoRevenue == <<>>

RECURSIVE GCD(_, _)
GCD(a, b) == IF b = 0 THEN a ELSE GCD(b, a % b)

\* the float a / b (b > 0, a >= 0) as a fraction in lowest terms
Frac(a, b) == LET g == GCD(a, b) IN [num |-> a \div g, den |-> b \div g]

FloatNaN == [num |-> 0, den |-> 0]

Zero == [num |-> 0, den |-> 1]

IsNaN(x) == x.den = 0

\* x <= y on floats that are not NaN
Leq(x, y) == x.num * y.den <= y.num * x.den

RECURSIVE SumSeq(_)
SumSeq(s) == IF s = <<>> THEN 0 ELSE Head(s) + SumSeq(Tail(s))

\* ------------------------------------------------------------- load_data
Dims == {"src", "asset", "age", "exp", "occ"}

source_keys ==
    {"yahoo", "Yahoo", "google", "Google", "Facebook", "microsoft", "Bing Ad",
     "nikkei", "careNet", "line", "Line", "columnSite", "LinkedIn"}

source_map ==
    [k \in source_keys |->
        CASE k \in {"yahoo", "Yahoo"} -> "Yahoo"
          [] k \in {"google", "Google"} -> "Google"
          [] k = "Facebook" -> "Facebook"
          [] k \in {"microsoft", "Bing Ad"} -> "Microsoft"
          [] k = "nikkei" -> "Nikkei"
          [] k = "careNet" -> "CareNet"
          [] k \in {"line", "Line"} -> "LINE"
          [] k = "columnSite" -> "ColumnSite"
          [] k = "LinkedIn" -> "LinkedIn"]

\* the mapping without the fillna of line 85
MapSource_nofill(v) == IF v \in source_keys THEN source_map[v] ELSE NaN

\* .map(source_map).fillna(original): a key maps, anything else stays
MapSource(v) == IF v \in source_keys THEN source_map[v] ELSE v

asset_order == <<"lt20M", "lt50M", "lt100M", "lt500M", "ge500M">>

age_order == <<"20s", "30s", "40s", "50s", "60s", "70to74", "75plus">>

exp_order == <<"none", "lt1y", "lt3y", "ge3y">>

progress_order == <<"not_met", "met", "closed">>

Range(s) == {s[i] : i \in 1..Len(s)}

\* pd.Categorical(values, categories): a value outside the categories is NaN
Categorical(v, categories) == IF v \in Range(categories) THEN v ELSE NaN

\* dt.to_period("M").astype(str): the month of a date, "NaT" for a missing one
MonthOf(d) ==
    CASE d = NaN -> "NaT"
      [] d \in {"2024-01-15", "2024-01-20"} -> "2024-01"
      [] d = "2024-02-03" -> "2024-02"

\* the meeting flag set for "met" alone
NormalizeRow_met_only(r) ==
    LET progress == Categorical(r.progress, progress_order)
    IN  [src       |-> MapSource(r.src),
         asset     |-> Categorical(r.asset, asset_order),
         age       |-> Categorical(r.age, age_order),
         exp       |-> Categorical(r.exp, exp_order),
         occ       |-> r.occ,
         progress  |-> progress,
         revenue   |-> r.revenue,
         created   |-> r.created,
         month     |-> MonthOf(r.created),
         is_meeting |-> IF progress = "met" THEN 1 ELSE 0,
         is_closed  |-> IF progress = "closed" THEN 1 ELSE 0]

NormalizeRow(r) ==
    LET progress == Categorical(r.progress, progress_order)
    IN  [src       |-> MapSource(r.src),
         asset     |-> Categorical(r.asset, asset_order),
         age       |-> Categorical(r.age, age_order),
         exp       |-> Categorical(r.exp, exp_order),
         occ       |-> r.occ,
         progress  |-> progress,
         revenue   |-> r.revenue,
         created   |-> r.created,
         month     |-> MonthOf(r.created),
         is_meeting |-> IF progress \in {"met", "closed"} THEN 1 ELSE 0,
         is_closed  |-> IF progress = "closed" THEN 1 ELSE 0]

load_data(source) == [i \in 1..Len(source) |-> NormalizeRow(source[i])]

\* .dt on line 98 needs a datetime column: a sheet with no date at all (no
\* rows, or every date cell empty) does not load
Loads(source) == \E i \in 1..Len(source) : source[i].created # NaN

\* ----------------------------------------------------------- calc_funnel
Column(data, c) == [i \in 1..Len(data) |-> data[i][c]]

\* Series.sum() of the revenue column: missing cells are skipped
RevenueSum(data) ==
    SumSeq([i \in 1..Len(data) |->
               IF data[i].revenue = NoRevenue THEN 0 ELSE data[i].revenue[1]])

RevenueCount(data) ==
    SumSeq([i \in 1..Len(data) |-> IF data[i].revenue = NoRevenue THEN 0 ELSE 1])

\* Series.mean() of the revenue column: the mean of the cells that are
\* present, NaN when none is
RevenueMean(data) ==
    IF RevenueCount(data) = 0 THEN FloatNaN
    ELSE Frac(RevenueSum(data), RevenueCount(data))

IsClosedRow(r) == r.is_closed = 1

\* a division that is not guarded: 0 / 0 on numpy integers is NaN
Rate_unguarded(part, whole) ==
    IF whole > 0 THEN Frac(part * 100, whole) ELSE FloatNaN

\* the factor 100 left out
Rate_fraction(part, whole) ==
    IF whole > 0 THEN Frac(part, whole) ELSE Zero

\* part / whole * 100 if whole > 0 else 0
Rate(part, whole) ==
    IF whole > 0 THEN Frac(part * 100, whole) ELSE Zero

calc_funnel(data) ==
    LET n == Len(data)
        meeting == SumSeq(Column(data, "is_meeting"))
        closed == SumSeq(Column(data, "is_closed"))
        revenue == RevenueSum(data)
        avg_revenue == IF closed > 0
                       THEN RevenueMean(SelectSeq(data, IsClosedRow))
                       ELSE Zero
        meeting_rate == Rate(meeting, n)
        close_rate == Rate(closed, n)
        close_from_meeting == Rate(closed, meeting)
    IN  [count |-> n, meetings |-> meeting, closings |-> closed,
         meeting_rate |-> meeting_rate, close_rate |-> close_rate,
         close_from_meeting |-> close_from_meeting,
         revenue_total |-> revenue, revenue_avg |-> avg_revenue]

\* ------------------------------------------------------------ raw tables
RawRow(src, asset, age, exp, occ, progress, revenue, created) ==
    [src |-> src, asset |-> asset, age |-> age, exp |-> exp, occ |-> occ,
     progress |-> progress, revenue |-> revenue, created |-> created]

RevenueCells == {NoRevenue} \cup {<<v>> : v \in 0..MaxRevenue}

\* the progress cells of a sheet: the three labels, a label that is none of
\* them, and an empty cell
ProgressCells == {"not_met", "met", "closed", "lost", NaN}

TablesUpTo(Rows, n) == UNION {[1..k -> Rows] : k \in 0..n}

FunnelRows ==
    {RawRow("Yahoo", "lt20M", "50s", "ge3y", "doctor", p, v, "2024-01-15") :
        p \in ProgressCells, v \in RevenueCells}

\* ---------------------------------------------------------- funnel_table
\* astype(str) of a cell: a missing cell reads "nan"
Str(v) == IF v = NaN THEN "nan" ELSE v

Values(data, col) == {data[i][col] : i \in 1..Len(data)}

\* the keys groupby(col, observed=True) yields: the values seen in the
\* column; dropna is left at its default, so a missing key yields no group
GroupKeys(data, col) == Values(data, col) \ {NaN}

Group(data, col, k) == SelectSeq(data, LAMBDA r : r[col] = k)

\* the funnel of the whole frame in every group
funnel_table_whole(data, group_col) ==
    [name \in GroupKeys(data, group_col) |-> calc_funnel(data)]

funnel_table(data, group_col) ==
    [name \in GroupKeys(data, group_col) |->
        calc_funnel(Group(data, group_col, name))]

\* ------------------------------------------------------------ formatting
CriticalMax == 10

CautionMax == 30

Oku == 100000000

Man == 10000

\* a / b rounded to the nearest integer, ties to even (b > 0, a >= 0)
RoundDiv(a, b) ==
    LET q == a \div b
        r == a % b
    IN  IF 2 * r < b THEN q
        ELSE IF 2 * r > b THEN q + 1
        ELSE IF q % 2 = 0 THEN q ELSE q + 1

Dash == [text |-> "dash"]

\* f"{x:.1f}%"
Percent(x) == [text |-> "percent", tenths |-> RoundDiv(10 * x.num, x.den)]

\* f"{int(x)}"
IntText(n) == [text |-> "int", digits |-> n]

format_yen(val) ==
    IF val >= Oku THEN [text |-> "oku", tenths |-> RoundDiv(10 * val, Oku)]
    ELSE IF val >= Man THEN [text |-> "man", units |-> RoundDiv(val, Man)]
    ELSE [text |-> "yen", units |-> val]

\* strict comparisons at the two thresholds
sample_warning_strict(n) ==
    IF n < CriticalMax
    THEN [class |-> "warning-badge", mark |-> "critical", n |-> n]
    ELSE IF n < CautionMax
    THEN [class |-> "warning-badge", mark |-> "caution", n |-> n]
    ELSE [class |-> "good-badge", mark |-> "none", n |-> n]

sample_warning(n) ==
    IF n <= CriticalMax
    THEN [class |-> "warning-badge", mark |-> "critical", n |-> n]
    ELSE IF n <= CautionMax
    THEN [class |-> "warning-badge", mark |-> "caution", n |-> n]
    ELSE [class |-> "good-badge", mark |-> "none", n |-> n]

\* ft[ft[count] <= 10]: the groups flagged as small samples
SmallGroups(ft) == {k \in DOMAIN ft : ft[k].count <= CriticalMax}

\* ---------------------------------------------------------------- actions
NoInputs == [page |-> "none"]

NoOutput == [page |-> "none"]

\* lines 129, 190-206: load and normalise the sheet
LoadData ==
    /\ pc = "start"
    /\ IF Loads(raw)
       THEN /\ df' = load_data(raw)
            /\ pc' = "ready"
       ELSE /\ df' = <<>>
            /\ pc' = "failed"
    /\ UNCHANGED <<raw, inputs, out>>

\* page 1, lines 212-306: the whole-table funnel, the lead sources' shares
\* and the monthly aggregate
source_counts(data) ==
    [v \in GroupKeys(data, "src") |-> Len(Group(data, "src", v))]

\* groupby(month).agg(...): month is a string column ("NaT" for a missing
\* date), so every row has a key
monthly(data) ==
    [m \in GroupKeys(data, "month") |->
        LET grp == Group(data, "month", m)
            n == Len(grp)
            meeting == SumSeq(Column(grp, "is_meeting"))
            closed == SumSeq(Column(grp, "is_closed"))
        IN  [count |-> n, meetings |-> meeting, closings |-> closed,
             revenue |-> RevenueSum(grp),
             meeting_rate |-> Frac(meeting * 100, n),
             close_rate |-> Frac(closed * 100, n)]]

ExecutiveSummary ==
    /\ pc = "ready"
    /\ inputs' = [page |-> "summary"]
    /\ out' = [page |-> "summary",
               overall |-> calc_funnel(df),
               source_counts |-> source_counts(df),
               monthly |-> monthly(df)]
    /\ pc' = "done"
    /\ UNCHANGED <<raw, df>>

\* page 2, lines 312-408: the single-axis table of the chosen dimension
SingleAxis(col_name) ==
    /\ pc = "ready"
    /\ inputs' = [page |-> "single", axis |-> col_name]
    /\ LET ft == funnel_table(df, col_name)
       IN  out' = [page |-> "single",
                   ft |-> ft,
                   nodata |-> (DOMAIN ft = {}),
                   small_n |-> SmallGroups(ft)]
    /\ pc' = "done"
    /\ UNCHANGED <<raw, df>>

\* page 3, lines 414-514: the two-axis cross tabulation
Metrics == {"close_rate", "meeting_rate", "count", "revenue_total", "closings"}

RateMetrics == {"close_rate", "meeting_rate", "close_from_meeting"}

\* the groups of groupby([x_col, y_col], observed=True): the pairs seen in a
\* row with both keys present
PairKeys(data, x_col, y_col) ==
    {<<data[i][x_col], data[i][y_col]>> : i \in 1..Len(data)}
        \ {p \in Values(data, x_col) \X Values(data, y_col) :
              p[1] = NaN \/ p[2] = NaN}

PairGroup(data, x_col, y_col, p) ==
    SelectSeq(data, LAMBDA r : r[x_col] = p[1] /\ r[y_col] = p[2])

cross_data(data, x_col, y_col) ==
    [p \in PairKeys(data, x_col, y_col) |->
        calc_funnel(PairGroup(data, x_col, y_col, p))]

\* pivot_table(index, columns, values, aggfunc="first"): a cell per (index,
\* column) pair, <<v>> where the pair is a group and <<>> (NaN) elsewhere
pivot_table(cross, values) ==
    LET index == {p[1] : p \in DOMAIN cross}
        columns == {p[2] : p \in DOMAIN cross}
    IN  [p \in index \X columns |->
            IF p \in DOMAIN cross THEN <<cross[p][values]>> ELSE <<>>]

\* lines 455-466: the text of a cell of the heatmap
text_matrix(metric, x) ==
    IF metric \in RateMetrics
    THEN IF x # <<>> THEN Percent(x[1]) ELSE Dash
    ELSE IF metric = "revenue_total"
    THEN IF x # <<>> /\ x[1] > 0 THEN format_yen(x[1]) ELSE Dash
    ELSE IF x # <<>> THEN IntText(x[1]) ELSE IntText(0)

\* lines 469-481: the text with the sample size appended
combined_text(val, n_cell) ==
    LET n_val == IF n_cell # <<>> THEN n_cell[1] ELSE 0
    IN  IF n_val <= CriticalMax /\ n_val > 0
        THEN [text |-> "cell", val |-> val, n |-> n_val, red |-> TRUE]
        ELSE IF n_val > 0
        THEN [text |-> "cell", val |-> val, n |-> n_val, red |-> FALSE]
        ELSE Dash

\* lines 507-513: the text of a cell of the cross-tabulation table
styled_pivot(metric, x) ==
    IF metric \in {"close_rate", "meeting_rate"}
    THEN IF x # <<>> THEN Percent(x[1]) ELSE Dash
    ELSE IF metric = "revenue_total"
    THEN IF x # <<>> /\ x[1] > 0 THEN format_yen(x[1]) ELSE Dash
    ELSE IF x # <<>> THEN IntText(x[1]) ELSE IntText(0)

CrossAnalysis(x_col, y_col, metric) ==
    /\ pc = "ready"
    /\ x_col # y_col
    /\ inputs' = [page |-> "cross", x_col |-> x_col, y_col |-> y_col,
                  metric |-> metric]
    /\ LET cross == cross_data(df, x_col, y_col)
           pivot == pivot_table(cross, metric)
           pivot_n == pivot_table(cross, "count")
       IN  out' = [page |-> "cross",
                   nodata |-> (DOMAIN cross = {}),
                   cross_data |-> cross,
                   pivot |-> pivot,
                   heatmap_text |->
                       [p \in DOMAIN pivot |->
                           combined_text(text_matrix(metric, pivot[p]),
                                         pivot_n[p])],
                   styled_pivot |->
                       [p \in DOMAIN pivot |-> styled_pivot(metric, pivot[p])]]
    /\ pc' = "done"
    /\ UNCHANGED <<raw, df>>

\* page 4, lines 520-622: the drill-down over up to three axes
\* the options of a multiselect: the values seen in the column, as strings
options_str(data, col) == {Str(o) : o \in GroupKeys(data, col)}

isin_str(data, col, selected) ==
    SelectSeq(data, LAMBDA r : Str(r[col]) \in selected)

\* an empty selection read as no filter
drill_filter_bypass(data, col, selected) ==
    IF selected # {} THEN <<isin_str(data, col, selected)>> ELSE <<data>>

\* lines 557-558 and 606-607: what is handed to the next axis, <<rows>> when
\* the selection is not empty and nothing (<<>>) when it is
drill_filter(data, col, selected) ==
    IF selected # {} THEN <<isin_str(data, col, selected)>> ELSE <<>>

NoTable == [k \in {} |-> 0]

\* the second axis, lines 557-596
SecondAxis(data, axis1, axis2, selected1) ==
    LET passed == drill_filter(data, axis1, selected1)
        ft2 == IF passed # <<>> THEN funnel_table(passed[1], axis2) ELSE NoTable
    IN  [passed |-> passed, ft |-> ft2, small |-> SmallGroups(ft2)]

\* the third axis, lines 599-622: asked for only below a second-axis table
\* with rows in it
ThirdAxisShown(second, axis3) == DOMAIN second.ft # {} /\ axis3 # "none"

\* the third axis taken from the whole table, past the first selection
ThirdAxis_unfiltered(second, axis2, axis3, selected2) ==
    LET passed == IF ThirdAxisShown(second, axis3)
                  THEN drill_filter(df, axis2, selected2)
                  ELSE <<>>
        ft3 == IF passed # <<>> THEN funnel_table(passed[1], axis3) ELSE NoTable
    IN  [passed |-> passed, ft |-> ft3, small |-> SmallGroups(ft3)]

ThirdAxis(second, axis2, axis3, selected2) ==
    LET passed == IF ThirdAxisShown(second, axis3)
                  THEN drill_filter(second.passed[1], axis2, selected2)
                  ELSE <<>>
        ft3 == IF passed # <<>> THEN funnel_table(passed[1], axis3) ELSE NoTable
    IN  [passed |-> passed, ft |-> ft3, small |-> SmallGroups(ft3)]

Drilldown(axis1, axis2, axis3) ==
    /\ pc = "ready"
    /\ axis2 # axis1
    /\ axis3 \notin {axis1, axis2}
    /\ LET ft1 == funnel_table(df, axis1)
       IN  IF DOMAIN ft1 = {}
           \* line 546: an empty frame has none of the columns asked for
           THEN /\ inputs' = [page |-> "drill", axis1 |-> axis1,
                              axis2 |-> axis2, axis3 |-> axis3,
                              selected1 |-> {}, selected2 |-> {}]
                /\ out' = [page |-> "drill", error |-> TRUE]
           ELSE \E selected1 \in SUBSET options_str(df, axis1) :
                  LET second == SecondAxis(df, axis1, axis2, selected1)
                      options2 == IF ThirdAxisShown(second, axis3)
                                  THEN options_str(second.passed[1], axis2)
                                  ELSE {}
                  IN  \E selected2 \in SUBSET options2 :
                        /\ inputs' = [page |-> "drill", axis1 |-> axis1,
                                      axis2 |-> axis2, axis3 |-> axis3,
                                      selected1 |-> selected1,
                                      selected2 |-> selected2]
                        /\ out' = [page |-> "drill", error |-> FALSE,
                                   ft1 |-> ft1,
                                   second |-> second,
                                   third_shown |-> ThirdAxisShown(second, axis3),
                                   third |-> ThirdAxis(second, axis2, axis3,
                                                       selected2)]
    /\ pc' = "done"
    /\ UNCHANGED <<raw, df>>

\* page 5, lines 628-754: the segments' close rates and the profile simulator
\* lines 644-658: an entry per (dimension, value) group
all_rates(data) ==
    [e \in UNION {{<<col, val>> : val \in GroupKeys(data, col)} : col \in Dims} |->
        LET grp == Group(data, e[1], e[2])
            n == Len(grp)
            closed == SumSeq(Column(grp, "is_closed"))
        IN  [label |-> e[1], value |-> Str(e[2]), count |-> n,
             closings |-> closed,
             rate |-> Rate(closed, n),
             rev |-> IF closed > 0
                     THEN RevenueMean(SelectSeq(grp, IsClosedRow))
                     ELSE Zero]]

\* the order in which groupby yields the keys of a column: the declared order
\* of a categorical column, the order of the strings of a label column (the
\* katakana label written ColumnSite follows every Latin one)
LabelOrder ==
    <<"CareNet", "Facebook", "Google", "LINE", "LinkedIn", "Microsoft", "Nikkei", "Yahoo", "doctor", "employee", "lawyer", "owner", "retired", "teacher", "tiktok", "ColumnSite">>

KeyOrder(col) ==
    CASE col = "asset" -> asset_order
      [] col = "age" -> age_order
      [] col = "exp" -> exp_order
      [] OTHER -> LabelOrder

SortedKeys(data, col) ==
    SelectSeq(KeyOrder(col), LAMBDA v : v \in GroupKeys(data, col))

DimOrder == <<"src", "asset", "age", "exp", "occ">>

RECURSIVE Flatten(_)
Flatten(ss) == IF ss = <<>> THEN <<>> ELSE Head(ss) \o Flatten(Tail(ss))

\* line 659: the frame of all_rates, a row per group in the order the two
\* loops append them
rates_df(data) ==
    Flatten([d \in 1..Len(DimOrder) |->
        LET keys == SortedKeys(data, DimOrder[d])
        IN  [k \in 1..Len(keys) |-> all_rates(data)[<<DimOrder[d], keys[k]>>]]])

RemoveAt(s, i) == SubSeq(s, 1, i - 1) \o SubSeq(s, i + 1, Len(s))

\* the rows by increasing rate
RECURSIVE sort_values_ascending(_)
sort_values_ascending(s) ==
    IF s = <<>> THEN <<>>
    ELSE LET i == CHOOSE j \in 1..Len(s) :
                    /\ \A k \in 1..Len(s) : Leq(s[j].rate, s[k].rate)
                    /\ \A k \in 1..(j - 1) : s[k].rate # s[j].rate
         IN  <<s[i]>> \o sort_values_ascending(RemoveAt(s, i))

\* sort_values(rate, ascending=False): the rows by decreasing rate; rows of
\* equal rate are kept in the order of the frame (the order numpy leaves ties
\* in is not modelled)
RECURSIVE sort_values(_)
sort_values(s) ==
    IF s = <<>> THEN <<>>
    ELSE LET i == CHOOSE j \in 1..Len(s) :
                    /\ \A k \in 1..Len(s) : Leq(s[k].rate, s[j].rate)
                    /\ \A k \in 1..(j - 1) : s[k].rate # s[j].rate
         IN  <<s[i]>> \o sort_values(RemoveAt(s, i))

RankHead == 20

head(s, n) == SubSeq(s, 1, IF Len(s) < n THEN Len(s) ELSE n)

\* line 684
rank_df(rates) == head(sort_values(rates), RankHead)

\* lines 698-699: the defaults of the lead-source multiselect have to be
\* among its options, or the widget raises and the page stops there
SimulatorDefaults == {"Yahoo", "Google"}

isin(data, col, selected) == SelectSeq(data, LAMBDA r : r[col] \in selected)

\* a step that filters on an empty selection too
sim_filter_strict(data, col, selected) == isin(data, col, selected)

\* lines 710-717: one step of the filter
sim_filter(data, col, selected) ==
    IF selected # {} THEN isin(data, col, selected) ELSE data

sim_df(data, sim_source, sim_asset, sim_age, sim_exp) ==
    sim_filter(sim_filter(sim_filter(sim_filter(data, "src", sim_source),
                                     "asset", sim_asset),
                          "age", sim_age),
               "exp", sim_exp)

LeadScoring(sim_source, sim_asset, sim_age, sim_exp) ==
    /\ pc = "ready"
    /\ IF SimulatorDefaults \subseteq GroupKeys(df, "src")
       THEN /\ sim_source \subseteq GroupKeys(df, "src")
            /\ inputs' = [page |-> "scoring", sim_source |-> sim_source,
                          sim_asset |-> sim_asset, sim_age |-> sim_age,
                          sim_exp |-> sim_exp]
            /\ LET sim == sim_df(df, sim_source, sim_asset, sim_age, sim_exp)
                   sim_result == calc_funnel(sim)
               IN  out' = [page |-> "scoring", error |-> FALSE,
                           all_rates |-> all_rates(df),
                           rates_df |-> rates_df(df),
                           rank_df |-> rank_df(rates_df(df)),
                           sim_df |-> sim,
                           sim_result |-> sim_result,
                           badge |-> sample_warning(sim_result.count),
                           overall |-> calc_funnel(df),
                           compared |-> (sim_result.count > 0)]
       ELSE /\ sim_source = {} /\ sim_asset = {} /\ sim_age = {} /\ sim_exp = {}
            /\ inputs' = [page |-> "scoring", sim_source |-> {},
                          sim_asset |-> {}, sim_age |-> {}, sim_exp |-> {}]
            /\ out' = [page |-> "scoring", error |-> TRUE,
                       all_rates |-> all_rates(df),
                       rates_df |-> rates_df(df),
                       rank_df |-> rank_df(rates_df(df))]
    /\ pc' = "done"
    /\ UNCHANGED <<raw, df>>

\* lines 171-176 applied to a lead count
SampleWarning ==
    /\ pc = "call"
    /\ out = NoOutput
    /\ out' = [page |-> "sample", badge |-> sample_warning(inputs.n)]
    /\ UNCHANGED <<pc, raw, df, inputs>>

\* -------------------------------------------------------- specifications
\* the whole-table funnel over sheets whose rows differ in progress and revenue
InitFunnel ==
    /\ pc = "start"
    /\ raw \in TablesUpTo(FunnelRows, MaxLeads)
    /\ df = <<>>
    /\ inputs = NoInputs
    /\ out = NoOutput

NextFunnel == LoadData \/ ExecutiveSummary

SpecFunnel == InitFunnel /\ [][NextFunnel]_vars

\* the single-axis tables over sheets whose rows differ in lead source, asset
\* band and progress
AxisRows ==
    {RawRow(s, a, "50s", "ge3y", "doctor", p,
            IF p = "closed" THEN <<MaxRevenue>> ELSE NoRevenue, "2024-01-15") :
        s \in {"yahoo", "Yahoo", "tiktok", NaN}, a \in {"lt20M", "over"},
        p \in {"not_met", "closed"}}

InitAxis ==
    /\ pc = "start"
    /\ raw \in TablesUpTo(AxisRows, MaxRows)
    /\ df = <<>>
    /\ inputs = NoInputs
    /\ out = NoOutput

NextAxis == LoadData \/ \E col \in Dims : SingleAxis(col)

SpecAxis == InitAxis /\ [][NextAxis]_vars

\* the cross tabulation over sheets whose rows differ in lead source, asset
\* band, progress and revenue
CrossRows ==
    {RawRow(s, a, "50s", "ge3y", "doctor", p,
            IF p = "closed" THEN <<MaxRevenue>> ELSE <<0>>, "2024-01-15") :
        s \in {"Yahoo", "Google", NaN}, a \in {"lt20M", "ge500M"},
        p \in {"not_met", "closed"}}

CrossAxes == {"src", "asset", "occ"}

InitCross ==
    /\ pc = "start"
    /\ raw \in TablesUpTo(CrossRows, MaxRows)
    /\ df = <<>>
    /\ inputs = NoInputs
    /\ out = NoOutput

NextCross ==
    \/ LoadData
    \/ \E x_col \in CrossAxes, y_col \in CrossAxes, metric \in Metrics :
          CrossAnalysis(x_col, y_col, metric)

SpecCross == InitCross /\ [][NextCross]_vars

\* the drill-down over sheets whose rows differ in lead source, asset band and
\* progress
DrillRows ==
    {RawRow(s, a, "50s", "ge3y", "doctor", p,
            IF p = "closed" THEN <<MaxRevenue>> ELSE NoRevenue, "2024-01-15") :
        s \in {"Yahoo", "Google", NaN}, a \in {"lt20M", "ge500M", "over"},
        p \in {"not_met", "closed"}}

DrillAxes == {"src", "asset", "occ"}

InitDrill ==
    /\ pc = "start"
    /\ raw \in TablesUpTo(DrillRows, MaxRows)
    /\ df = <<>>
    /\ inputs = NoInputs
    /\ out = NoOutput

NextDrill ==
    \/ LoadData
    \/ \E axis1 \in DrillAxes, axis2 \in DrillAxes,
          axis3 \in DrillAxes \cup {"none"} : Drilldown(axis1, axis2, axis3)

SpecDrill == InitDrill /\ [][NextDrill]_vars

\* the profile simulator over sheets whose rows differ in lead source, asset
\* band and progress
ProfileRows ==
    {RawRow(s, a, "50s", "ge3y", "doctor", p,
            IF p = "closed" THEN <<MaxRevenue>> ELSE NoRevenue, "2024-01-15") :
        s \in {"yahoo", "Google"}, a \in {"lt500M", "over"},
        p \in {"not_met", "closed"}}

InitProfile ==
    /\ pc = "start"
    /\ raw \in TablesUpTo(ProfileRows, MaxRows)
    /\ df = <<>>
    /\ inputs = NoInputs
    /\ out = NoOutput

NextProfile ==
    \/ LoadData
    \/ \E sim_source \in SUBSET {"Yahoo", "Google"},
          sim_asset \in SUBSET {"lt500M", "ge500M"},
          sim_age \in SUBSET {"50s", "60s"},
          sim_exp \in SUBSET {"ge3y"} :
          LeadScoring(sim_source, sim_asset, sim_age, sim_exp)

SpecProfile == InitProfile /\ [][NextProfile]_vars

\* the monthly aggregate over sheets whose rows differ in the creation date
\* (an empty cell included) and the progress
MonthlyRows ==
    {RawRow("Yahoo", "lt20M", "50s", "ge3y", "doctor", p,
            IF p = "closed" THEN <<MaxRevenue>> ELSE NoRevenue, d) :
        p \in {"not_met", "closed"}, d \in {NaN, "2024-01-15", "2024-02-03"}}

InitMonthly ==
    /\ pc = "start"
    /\ raw \in TablesUpTo(MonthlyRows, MaxLeads)
    /\ df = <<>>
    /\ inputs = NoInputs
    /\ out = NoOutput

NextMonthly == LoadData \/ ExecutiveSummary

SpecMonthly == InitMonthly /\ [][NextMonthly]_vars

\* the normalisation of the lead source over sheets whose rows differ in
\* the lead-source label only: every key of the synonym table, every value of
\* it, a label the table does not know and an empty cell
SourceLabels ==
    source_keys \cup {source_map[k] : k \in source_keys} \cup {"tiktok", NaN}

SourceRows ==
    {RawRow(s, "lt20M", "50s", "ge3y", "doctor", "not_met", NoRevenue,
            "2024-01-15") : s \in SourceLabels}

InitSource ==
    /\ pc = "start"
    /\ raw \in TablesUpTo(SourceRows, MaxRows)
    /\ df = <<>>
    /\ inputs = NoInputs
    /\ out = NoOutput

NextSource == LoadData \/ SingleAxis("src")

SpecSource == InitSource /\ [][NextSource]_vars

\* the segment ranking over sheets whose k-th row has the k-th lead source,
\* asset band, age bracket, experience and occupation, so that every row adds
\* groups of its own
RankProfile(k) ==
    [src |-> <<"Yahoo", "Google", "Facebook", "LinkedIn", "tiktok", "line">>[((k - 1) % 6) + 1],
     asset |-> asset_order[((k - 1) % 5) + 1],
     age |-> age_order[((k - 1) % 7) + 1],
     exp |-> exp_order[((k - 1) % 4) + 1],
     occ |-> <<"doctor", "lawyer", "owner", "employee", "retired", "teacher">>[((k - 1) % 6) + 1]]

RankTables ==
    UNION {{[k \in 1..n |->
                RawRow(RankProfile(k).src, RankProfile(k).asset,
                       RankProfile(k).age, RankProfile(k).exp,
                       RankProfile(k).occ, p[k],
                       IF p[k] = "closed" THEN <<MaxRevenue>> ELSE NoRevenue,
                       "2024-01-15")] :
            p \in [1..n -> {"not_met", "closed"}]} : n \in 0..MaxRankRows}

InitRank ==
    /\ pc = "start"
    /\ raw \in RankTables
    /\ df = <<>>
    /\ inputs = NoInputs
    /\ out = NoOutput

NextRank ==
    \/ LoadData
    \/ \E sim_source \in SUBSET {"Yahoo"} : LeadScoring(sim_source, {}, {}, {})

SpecRank == InitRank /\ [][NextRank]_vars

\* sample_warning over the lead counts up to MaxN
InitSample ==
    /\ pc = "call"
    /\ raw = <<>>
    /\ df = <<>>
    /\ inputs \in {[page |-> "sample", n |-> n] : n \in 0..MaxN}
    /\ out = NoOutput

NextSample == SampleWarning

SpecSample == InitSample /\ [][NextSample]_vars

\* ------------------------------------------------------------ properties
Indices(data, Test(_)) == {i \in 1..Len(data) : Test(data[i])}

RECURSIVE SumOver(_, _, _)
SumOver(ft, keys, field) ==
    IF keys = {} THEN 0
    ELSE LET k == CHOOSE x \in keys : TRUE
         IN  ft[k][field] + SumOver(ft, keys \ {k}, field)

\* x = a / b as floats (b > 0)
IsQuotient(x, a, b) == x.den > 0 /\ x.num * b = a * x.den

Simulated == out.page = "scoring" /\ ~out.error

\* C1: the funnel of an empty row set (a profile no lead matches) has count 0
\* and meeting rate, close rate, meeting-to-close rate and average revenue 0;
\* in every funnel a rate whose denominator is 0 is 0.
C1_EmptyFunnelIsZero ==
    Simulated =>
        LET f == out.sim_result
        IN  /\ out.sim_df = <<>> =>
                /\ f.count = 0
                /\ f.meeting_rate = Zero
                /\ f.close_rate = Zero
                /\ f.close_from_meeting = Zero
                /\ f.revenue_avg = Zero
            /\ f.count = 0 => f.meeting_rate = Zero /\ f.close_rate = Zero
            /\ f.meetings = 0 => f.close_from_meeting = Zero
            /\ f.closings = 0 => f.revenue_avg = Zero

C1_Witness == Simulated /\ out.sim_df = <<>> /\ Len(df) = MaxRows

\* C2: the whole-table funnel has count = number of rows, meetings = number of
\* rows flagged is_meeting, closings = number of rows flagged is_closed,
\* meeting_rate = meetings / count * 100, close_rate = closings / count * 100
\* and, when meetings > 0, close_from_meeting = closings / meetings * 100.
C2_FunnelMetrics ==
    out.page = "summary" =>
        LET f == out.overall
            meetings == Cardinality(Indices(df, LAMBDA r : r.is_meeting = 1))
            closings == Cardinality(Indices(df, LAMBDA r : r.is_closed = 1))
        IN  /\ f.count = Len(df)
            /\ f.meetings = meetings
            /\ f.closings = closings
            /\ f.count > 0 =>
                 /\ IsQuotient(f.meeting_rate, meetings * 100, f.count)
                 /\ IsQuotient(f.close_rate, closings * 100, f.count)
            /\ meetings > 0 =>
                 IsQuotient(f.close_from_meeting, closings * 100, meetings)

C2_Witness ==
    /\ out.page = "summary"
    /\ out.overall.count = 3 /\ out.overall.meetings = 2
    /\ out.overall.closings = 1
    /\ out.overall.close_from_meeting = [num |-> 50, den |-> 1]

ClosedRevenue(data) ==
    SumSeq([i \in 1..Len(data) |->
               IF data[i].is_closed = 1 /\ data[i].revenue # NoRevenue
               THEN data[i].revenue[1] ELSE 0])

\* C3: with closings > 0 the average revenue is the total revenue of the closed
\* rows divided by the number of closed rows, also when a closed row has no
\* revenue; with closings = 0 it is 0.
C3_RevenueAvgOverClosings ==
    out.page = "summary" =>
        LET f == out.overall
        IN  /\ f.closings > 0 =>
                 IsQuotient(f.revenue_avg, ClosedRevenue(df), f.closings)
            /\ f.closings = 0 => f.revenue_avg = Zero

\* C4: a lead count n is marked critical for n <= 10, caution for 10 < n <= 30
\* and reliable (no mark) for n > 30.
C4_SampleTiers ==
    out.page = "sample" =>
        LET n == inputs.n
            mark == out.badge.mark
        IN  /\ n <= 10 => mark = "critical"
            /\ (10 < n /\ n <= 30) => mark = "caution"
            /\ n > 30 => mark = "none"
            /\ out.badge.n = n

C4_Witness == out.page = "sample" /\ inputs.n = 30 /\ out.badge.mark = "caution"

SimDims == {"src", "asset", "age", "exp"}

Selection ==
    [d \in SimDims |->
        CASE d = "src" -> inputs.sim_source
          [] d = "asset" -> inputs.sim_asset
          [] d = "age" -> inputs.sim_age
          [] d = "exp" -> inputs.sim_exp]

Drilled == out.page = "drill" /\ ~out.error

NoRowsPassed(stage) ==
    /\ stage.passed \in {<<>>, << <<>> >>}
    /\ DOMAIN stage.ft = {}

\* C6: in the drill-down an empty selection on the first axis leaves the second
\* axis with no rows to aggregate and no group, never with the unfiltered rows;
\* likewise an empty selection on the second axis for the third axis.
C6_EmptySelectionNoRows ==
    Drilled =>
        /\ inputs.selected1 = {} => NoRowsPassed(out.second)
        /\ inputs.selected2 = {} => NoRowsPassed(out.third)

C6_Witness ==
    /\ Drilled
    /\ inputs.selected1 = {}
    /\ Len(df) = MaxRows /\ Cardinality(DOMAIN out.ft1) = 2

\* C7: over a dimension with no missing value the lead counts of the groups of
\* the single-axis table add up to the number of rows, and the groups' meetings
\* and closings to the table's meetings and closings.
C7_GroupsPartition ==
    (out.page = "single" /\ NaN \notin Values(df, inputs.axis)) =>
        /\ SumOver(out.ft, DOMAIN out.ft, "count") = Len(df)
        /\ SumOver(out.ft, DOMAIN out.ft, "meetings") =
              Cardinality(Indices(df, LAMBDA r : r.is_meeting = 1))
        /\ SumOver(out.ft, DOMAIN out.ft, "closings") =
              Cardinality(Indices(df, LAMBDA r : r.is_closed = 1))

C7_Witness ==
    /\ out.page = "single" /\ inputs.axis = "src"
    /\ NaN \notin Values(df, "src")
    /\ Cardinality(DOMAIN out.ft) = 2
    /\ SumOver(out.ft, DOMAIN out.ft, "closings") = 1

\* C8: the rows whose value for the grouping dimension is missing form a group
\* of their own in the single-axis table.
C8_NullGroupKept ==
    (out.page = "single" /\ NaN \in Values(df, inputs.axis)) =>
        /\ NaN \in DOMAIN out.ft
        /\ out.ft[NaN].count =
              Cardinality(Indices(df, LAMBDA r : r[inputs.axis] = NaN))

Observed(p) ==
    \E i \in 1..Len(df) : df[i][inputs.x_col] = p[1] /\ df[i][inputs.y_col] = p[2]

\* C9: in the cross tabulation every pair of values seen in a row is a group,
\* and for every metric the cell of a pair seen in no row reads as the no-data
\* mark, never as 0, in the heatmap and in the table.
C9_NoDataMarked ==
    out.page = "cross" =>
        /\ \A i \in 1..Len(df) :
              (df[i][inputs.x_col] # NaN /\ df[i][inputs.y_col] # NaN) =>
                  <<df[i][inputs.x_col], df[i][inputs.y_col]>> \in DOMAIN out.cross_data
        /\ \A p \in DOMAIN out.pivot :
              ~Observed(p) =>
                  /\ out.heatmap_text[p] = Dash
                  /\ out.styled_pivot[p] = Dash

\* C10: in the normalised table a row flagged is_closed is flagged is_meeting,
\* whatever its progress cell held, and the whole-table funnel has
\* closings <= meetings <= count and 0 <= close_rate <= meeting_rate <= 100.
C10_ClosedImpliesMet ==
    /\ \A i \in 1..Len(df) : df[i].is_closed = 1 => df[i].is_meeting = 1
    /\ out.page = "summary" =>
          LET f == out.overall
          IN  /\ f.closings <= f.meetings /\ f.meetings <= f.count
              /\ ~IsNaN(f.close_rate) /\ ~IsNaN(f.meeting_rate)
              /\ Leq(Zero, f.close_rate)
              /\ Leq(f.close_rate, f.meeting_rate)
              /\ Leq(f.meeting_rate, [num |-> 100, den |-> 1])

C10_Witness ==
    /\ out.page = "summary"
    /\ \E i, j, k \in 1..Len(df) :
          /\ raw[i].progress = "closed" /\ raw[j].progress = "lost"
          /\ raw[k].progress = NaN
    /\ out.overall.closings = 1 /\ out.overall.meetings = 1

Ranked == out.page = "scoring"

NonIncreasing(rank) ==
    \A i \in 1..Len(rank) : \A j \in i..Len(rank) : Leq(rank[j].rate, rank[i].rate)

\* the (dimension, value) pairs seen in the table
SeenPairs == {<<d, v>> \in Dims \X UNION {Values(df, d) : d \in Dims} :
                 v # NaN /\ v \in Values(df, d)}

EntryOf(rank, pair) ==
    {i \in 1..Len(rank) : rank[i].label = pair[1] /\ rank[i].value = Str(pair[2])}

CloseRateOf(pair) ==
    LET rows == Indices(df, LAMBDA r : r[pair[1]] = pair[2])
        closed == {i \in rows : df[i].is_closed = 1}
    IN  [part |-> Cardinality(closed) * 100, whole |-> Cardinality(rows)]

Loaded == pc \in {"ready", "done"}

CanonicalSources ==
    {"Yahoo", "Google", "Facebook", "Microsoft", "Nikkei", "CareNet", "LINE",
     "ColumnSite", "LinkedIn"}

\* C12: no label makes loading raise an error (every sheet that has a row
\* loads); a lead-source label that is a key of the synonym table is replaced
\* by the table's value for it, one of the nine canonical values; every other
\* label (an empty cell too) is passed through unchanged; and mapping a
\* normalised label again leaves it as it is.
C12_SourceNormalized ==
    /\ pc = "failed" => raw = <<>>
    /\ Loaded =>
          /\ Len(df) = Len(raw)
          /\ \A i \in 1..Len(raw) :
                /\ raw[i].src \in source_keys =>
                      /\ df[i].src = source_map[raw[i].src]
                      /\ df[i].src \in CanonicalSources
                /\ raw[i].src \notin source_keys => df[i].src = raw[i].src
                /\ MapSource(df[i].src) = df[i].src
          /\ out.page = "single" =>
                DOMAIN out.ft = {df[i].src : i \in 1..Len(df)} \ {NaN}

C12_Witness ==
    /\ out.page = "single"
    /\ Len(raw) = 2
    /\ raw[1].src = "Bing Ad" /\ df[1].src = "Microsoft"
    /\ raw[2].src = "tiktok" /\ df[2].src = "tiktok"

Dated == {i \in 1..Len(df) : df[i].created # NaN}

\* C13: a row whose creation date is missing is in no bucket of the monthly
\* aggregate (the buckets are the months of the dated rows and their lead
\* counts add up to the number of dated rows), while the whole-table funnel
\* still counts it.
C13_MissingDateUnbucketed ==
    out.page = "summary" =>
        /\ DOMAIN out.monthly = {MonthOf(df[i].created) : i \in Dated}
        /\ SumOver(out.monthly, DOMAIN out.monthly, "count") = Cardinality(Dated)
        /\ out.overall.count = Len(df)

\* C14: a row whose progress is a label outside the declared ones is not
\* counted as a lead that has not met: the leads the whole-table funnel counts
\* without a meeting are the rows whose progress is not_met (or empty).
C14_UnknownProgressNotUnmet ==
    out.page = "summary" =>
        out.overall.count - out.overall.meetings =
            Cardinality({i \in 1..Len(raw) : raw[i].progress \in {"not_met", NaN}})

\* the rows of the table at the indices I, in the table's order
RowsAt(I) ==
    [k \in 1..Cardinality(I) |->
        df[CHOOSE i \in I : Cardinality({j \in I : j < i}) = k - 1]]

FirstStep == {i \in 1..Len(df) : Str(df[i][inputs.axis1]) \in inputs.selected1}

SecondStep == {i \in FirstStep : Str(df[i][inputs.axis2]) \in inputs.selected2}

\* C15: with a first selection made, the second axis aggregates exactly the
\* rows of the table whose first-axis value is selected, and their number is
\* the sum of the first-axis table's lead counts over the selected values;
\* with a second selection made below it, the third axis aggregates exactly
\* those of them whose second-axis value is selected too; each row set is
\* within the one before it.
C15_SequentialFilter ==
    Drilled =>
        /\ inputs.selected1 # {} =>
              /\ out.second.passed = <<RowsAt(FirstStep)>>
              /\ out.second.ft = funnel_table(RowsAt(FirstStep), inputs.axis2)
              /\ Len(out.second.passed[1]) =
                    SumOver(out.ft1, {k \in DOMAIN out.ft1 :
                                         Str(k) \in inputs.selected1}, "count")
        /\ out.third_shown /\ inputs.selected2 # {} =>
              /\ out.third.passed = <<RowsAt(SecondStep)>>
              /\ out.third.ft = funnel_table(RowsAt(SecondStep), inputs.axis3)
              /\ SecondStep \subseteq FirstStep
        /\ ~out.third_shown => out.third.passed = <<>>
        /\ FirstStep \subseteq 1..Len(df)

C15_Witness ==
    /\ Drilled
    /\ out.third_shown
    /\ inputs.selected2 # {}
    /\ Len(df) = 2
    /\ FirstStep = {1}
    /\ Str(df[2][inputs.axis2]) \in inputs.selected2
    /\ Len(out.third.passed[1]) = 1

====
